---- MODULE Spec2Model ----
(***************************************************************************)
(* State-machine model of plaso's SQLite-based storage file                *)
(* (plaso/storage/sqlite/sqlite_file.py, class SQLiteStorageFile) together *)
(* with the parts of its base class (acstore's                             *)
(* SQLiteAttributeContainerStore) that its methods call.                   *)
(*                                                                         *)
(* One storage file and one store handle are modelled.  The file is the    *)
(* persistent state (metadata table, container tables and their rows);     *)
(* the handle is the in-memory state (open flag, connection, write cache,  *)
(* sequence counters, index cache).  A handle can be closed and opened     *)
(* again, or replaced by a newly constructed one.                          *)
(***************************************************************************)
EXTENDS Integers, Sequences, FiniteSets, TLC

(***************************************************************************)
(* Bounds of the model.                                                    *)
(***************************************************************************)
\* Total number of AddAttributeContainer calls over the life of the file.
MaxAdds == 3
\* The same, in the specification of the write batches alone.
MaxBatchAdds == 6
\* The events added in the specification of the time ranges, and the largest
\* of their timestamps and of the bounds of the time ranges.
MaxRangeAdds == 3
MaxTimestamp == 2
\* The smallest timestamp: timestamps before the epoch are negative.
MinTimestamp == 0 - 1
\* The adds in the specification of the stored formats.
MaxFormatAdds == 1
\* The adds in the behaviours that check the updates.
MaxUpdateAdds == 3
\* The adds in the behaviours that run every operation a second time.
MaxProfileAdds == 1

(***************************************************************************)
(* Program constants.                                                      *)
(***************************************************************************)
\* acstore: SQLiteAttributeContainerStore._MAXIMUM_WRITE_CACHE_SIZE (50 in
\* the library; scaled down, keeping MAXIMUM_WRITE_CACHE_SIZE > 3 so that
\* MAXIMUM_WRITE_CACHE_SIZE + 1 adds still cross the threshold only once).
MAXIMUM_WRITE_CACHE_SIZE == 4
\* acstore: AttributeContainerStoreWithReadCache._MAXIMUM_CACHED_CONTAINERS
\* (32 * 1024 in the library; scaled down so that eviction happens).
MAXIMUM_CACHED_CONTAINERS == 1

CONTAINER_TYPE_EVENT == "event"
CONTAINER_TYPE_EVENT_DATA == "event_data"
CONTAINER_TYPE_EVENT_DATA_STREAM == "event_data_stream"
CONTAINER_TYPE_EVENT_SOURCE == "event_source"
CONTAINER_TYPE_EVENT_TAG == "event_tag"

\* Container types that are referenced from other container types.
REFERENCED_CONTAINER_TYPES ==
  { CONTAINER_TYPE_EVENT, CONTAINER_TYPE_EVENT_DATA,
    CONTAINER_TYPE_EVENT_DATA_STREAM, CONTAINER_TYPE_EVENT_SOURCE }

\* Container types to not create a table for.
NO_CREATE_TABLE_CONTAINER_TYPES ==
  { "analyzer_result", "hostname", "mount_point", "operating_system", "path",
    "source_configuration" }

\* A registered container type without schema: its containers are stored
\* serialized, in the one column _data (lines 419-434).
CONTAINER_TYPE_OPAQUE == "opaque"

\* The registered container types (AttributeContainersManager.GetContainerTypes).
GetContainerTypes ==
  REFERENCED_CONTAINER_TYPES \cup {CONTAINER_TYPE_EVENT_TAG}
    \cup {CONTAINER_TYPE_OPAQUE} \cup NO_CREATE_TABLE_CONTAINER_TYPES

\* The container types that get a table.
TableTypes == GetContainerTypes \ NO_CREATE_TABLE_CONTAINER_TYPES

\* The container types the modelled callers add, update and read: one
\* referenced type and one that is not referenced.
UsedTypes == {CONTAINER_TYPE_EVENT, CONTAINER_TYPE_EVENT_TAG}

\* The container types the history of the model keeps the adds of.
TrackedTypes == UsedTypes \cup {CONTAINER_TYPE_OPAQUE}

COMPRESSION_FORMAT_NONE == "none"
COMPRESSION_FORMAT_ZLIB == "zlib"
COMPRESSION_FORMATS == {COMPRESSION_FORMAT_NONE, COMPRESSION_FORMAT_ZLIB}
SERIALIZER_FORMAT_JSON == "json"

\* Format versions, by what the store's format check makes of them.
FORMAT_VERSION == "current"
UPGRADABLE_VERSION == "upgradable"
READ_ONLY_VERSION == "read_only"
UNSUPPORTED_VERSION == "unsupported"

\* A metadata key without a value (dict.get(key, None)).
None == "None"

\* The value update() writes: the containers are added with distinct values
\* 1, 2, ... (the event timestamp, the tag label), and updated to this one.
UPDATED == 0

\* No write was made to an identifier yet.
NeverWritten == 0 - 1

\* The first element of a write cache list: the column names.
COLUMN_NAMES == 0 - 2

\* The value of a container whose attribute is not set (None, stored as NULL).
NULL == 0 - 3

\* The file does not exist / exists as a database without a metadata table.
NoFile ==
  [table |-> "no_file", format_version |-> None, compression_format |-> None,
   serialization_format |-> None]
NoMetadataTable ==
  [table |-> "no_metadata_table", format_version |-> None,
   compression_format |-> None, serialization_format |-> None]

\* The path arguments of Open.
NoPath == ""
FilePath == "storage.plaso"

VARIABLES
  \* The storage file.
  f_meta,       \* the metadata table; NoFile, NoMetadataTable when there is none
  f_tables,     \* the container tables that exist
  f_rows,       \* per container table: its rows, by rowid
  f_fault,      \* the database rejects INSERT statements (full, locked)
  \* The store handle.
  is_open, read_only, connection, cursor,
  format_version, compression_format, serialization_format,
  sequence_numbers,           \* _attribute_container_sequence_numbers
  write_cache,                \* _write_cache: <<>> when the type has no entry
  attribute_container_cache,  \* _attribute_container_cache, first = most recent
  serializers_profiler,       \* _serializers_profiler is set (not None)
  storage_profiler,           \* _storage_profiler is set (not None)
  \* The profilers: the timings and samples they were asked to record.
  profile,
  \* The outcome of the last call.
  last,
  \* History of the file and of the session, for stating the properties.
  ids,          \* per type: the sequence numbers add() assigned, in call order
  lastw,        \* per type: identifier -> value of the most recent write to it
  session,      \* "none", "ok" (Open returned) or "failed" (Open raised)
  fresh,        \* the session's Open created the metadata table
  addsAtOpen,   \* per type: the adds made before the session's Open
  \* The second run of an operation, on a store without profilers.
  twin

file == <<f_meta, f_tables, f_rows, f_fault>>
handle == <<is_open, read_only, connection, cursor, format_version,
            compression_format, serialization_format, sequence_numbers,
            write_cache, attribute_container_cache>>
history == <<ids, lastw, session, fresh, addsAtOpen>>
profilers == <<serializers_profiler, storage_profiler>>
vars == <<file, handle, last, history, profilers, profile, twin>>

(***************************************************************************)
(* Helpers.                                                                *)
(***************************************************************************)
\* The errors the calls raise.
NoError == ""
ERR_ALREADY_OPEN == "IOError: Storage file already opened."
ERR_MISSING_PATH == "ValueError: Missing path."
ERR_CONNECT == "sqlite3.OperationalError: unable to open database file"
ERR_QUERY == "IOError: Unable to query storage file"
ERR_FORMAT_VERSION == "IOError: Unsupported format version"
ERR_COMPRESSION == "IOError: Unsupported compression format"
ERR_SERIALIZATION == "IOError: Unsupported serialization format"
ERR_CLOSED == "IOError: Storage file already closed."
ERR_NOT_WRITABLE == "IOError: Unable to write to closed or read-only store."
ERR_NO_SCHEMA == "IOError: Unsupported attribute container type"
ERR_SYNTAX == "SyntaxError: invalid syntax"
UnsupportedFormatErrors == {ERR_FORMAT_VERSION, ERR_COMPRESSION, ERR_SERIALIZATION}

\* A time range argument: None, or an object whose bounds are None or an
\* integer.
TimeRange(start_none, start_timestamp, end_none, end_timestamp) ==
  [none |-> FALSE,
   start_none |-> start_none, start_timestamp |-> start_timestamp,
   end_none |-> end_none, end_timestamp |-> end_timestamp]

\* GetSortedEvents called without a time range (time_range=None), and
\* GetAttributeContainers without a filter expression.
NoTimeRange ==
  [none |-> TRUE, start_none |-> TRUE, start_timestamp |-> 0,
   end_none |-> TRUE, end_timestamp |-> 0]

\* Python truth of a bound: None and 0 are false.
Truthy(is_none, value) == ~is_none /\ value # 0

\* A filter expression argument of GetAttributeContainers: None, a string
\* that is no Python expression, a comparison of an attribute the container
\* type does not have, or the comparison 'timestamp >= value'.
FilterExpression(kind, value) == [kind |-> kind, value |-> value]
NoFilterExpression == FilterExpression("none", 0)

\* The outcome of a call: what it returned or raised; arg is the time range
\* GetSortedEvents was given, filter the filter expression
\* GetAttributeContainers was given.
Outcome(op, t, err, id, ret) ==
  [op |-> op, type |-> t, err |-> err, id |-> id, ret |-> ret,
   arg |-> NoTimeRange, filter |-> NoFilterExpression]

SeqSum(f, S) ==
  LET RECURSIVE Sum(_)
      Sum(R) == IF R = {} THEN 0
                ELSE LET x == CHOOSE y \in R : TRUE IN Len(f[x]) + Sum(R \ {x})
  IN Sum(S)

TotalAdds == SeqSum(ids, TrackedTypes)

\* What a profiler that is set is asked to record under a name.
Recorded(profiler, name) == IF profiler THEN {name} ELSE {}

\* No operation was run a second time.
NoOperation == [name |-> "none", type |-> "-", n |-> 0]
NoState == [none |-> TRUE]
NoTwin ==
  [phase |-> "first", op |-> NoOperation, before |-> NoState,
   after |-> NoState, profilers |-> <<FALSE, FALSE>>]

\* The rows of a write cache list, without the column names.
PendingRows(wc) ==
  IF wc = <<>> THEN <<>>
  ELSE IF wc[1] = COLUMN_NAMES THEN Tail(wc)
  ELSE wc

(***************************************************************************)
(* The base store (acstore).                                               *)
(***************************************************************************)
\* AttributeContainerStore._GetAttributeContainerSchema: the table types of
\* the model have a schema but for the opaque one; the other registered
\* types are not looked up.
GetAttributeContainerSchema(container_type) ==
  container_type \in TableTypes \ {CONTAINER_TYPE_OPAQUE}

\* SQLiteAttributeContainerStore._HasTable.
HasTable(tables, table_name) == table_name \in tables

\* SQLiteAttributeContainerStore.GetNumberOfAttributeContainers: the rows of
\* the table, 0 without a table.
GetNumberOfAttributeContainers(tables, rows, container_type) ==
  IF HasTable(tables, container_type) THEN Len(rows[container_type]) ELSE 0

\* AttributeContainerStore._GetAttributeContainerNextSequenceNumber: the
\* counter is incremented and its new value returned.
GetAttributeContainerNextSequenceNumber(counters, container_type) ==
  counters[container_type] + 1

\* SQLiteAttributeContainerStore._FlushWriteCache: the column names are popped
\* and the remaining rows inserted by one INSERT; the new rows get the next
\* rowids.
FlushWriteCache(rows, container_type, wc) ==
  [rows EXCEPT ![container_type] = @ \o Tail(wc)]

\* SQLiteAttributeContainerStore._FlushWriteCache raises: the INSERT names a
\* table that does not exist, the database rejects it, or the list has lost
\* its column names and its first row is taken for them.
FlushWriteCacheRaises(tables, fault, container_type, wc) ==
  \/ ~HasTable(tables, container_type)
  \/ fault
  \/ wc[1] # COLUMN_NAMES

\* The generic format version check of the base store's _CheckStorageMetadata.
StoreCheckFormatVersion(version, check_readable_only) ==
  \/ version \in {FORMAT_VERSION, UPGRADABLE_VERSION}
  \/ check_readable_only /\ version = READ_ONLY_VERSION

\* SQLiteAttributeContainerStore._UpdateStorageMetadataFormatVersion: forward
\* only, nothing to do when already current.
UpdateStorageMetadataFormatVersion(meta) ==
  [meta EXCEPT !.format_version = FORMAT_VERSION]

CacheKey(container_type, index) == <<container_type, index>>

CacheWithout(cache, key) == SelectSeq(cache, LAMBDA e : e.key # key)

CacheHas(cache, key) == \E k \in 1..Len(cache) : cache[k].key = key

CacheValue(cache, key) ==
  LET k == CHOOSE j \in 1..Len(cache) : cache[j].key = key IN cache[k].value

\* AttributeContainerStoreWithReadCache._CacheAttributeContainerByIndex: when
\* full the least recently used entry is dropped; the container is stored and
\* moved to the front.
CacheAttributeContainerByIndex(cache, container_type, index, value) ==
  LET kept == IF Len(cache) >= MAXIMUM_CACHED_CONTAINERS
              THEN SubSeq(cache, 1, Len(cache) - 1) ELSE cache
      key == CacheKey(container_type, index)
  IN <<[key |-> key, value |-> value]>> \o CacheWithout(kept, key)

\* AttributeContainerStoreWithReadCache._GetCachedAttributeContainer: a hit
\* moves the entry to the front.
TouchCachedAttributeContainer(cache, container_type, index) ==
  LET key == CacheKey(container_type, index)
  IN IF CacheHas(cache, key)
     THEN <<[key |-> key, value |-> CacheValue(cache, key)]>>
            \o CacheWithout(cache, key)
     ELSE cache

(***************************************************************************)
(* SQLiteStorageFile.                                                      *)
(***************************************************************************)
\* A variant of _CheckStorageMetadata that checks the format version alone.
CheckStorageMetadataVersionOnly(metadata_values, check_readable_only) ==
  IF ~StoreCheckFormatVersion(metadata_values.format_version,
                              check_readable_only)
  THEN ERR_FORMAT_VERSION
  ELSE NoError

\* _CheckStorageMetadata: the error raised, NoError when the metadata passes.
CheckStorageMetadata(metadata_values, check_readable_only) ==
  IF ~StoreCheckFormatVersion(metadata_values.format_version,
                              check_readable_only)
  THEN ERR_FORMAT_VERSION
  ELSE IF metadata_values.compression_format \notin COMPRESSION_FORMATS
  THEN ERR_COMPRESSION
  ELSE IF metadata_values.serialization_format # SERIALIZER_FORMAT_JSON
  THEN ERR_SERIALIZATION
  ELSE NoError

\* _ReadAndCheckStorageMetadata: the error raised; reading the metadata table
\* of a database that has none is a query error.
ReadAndCheckStorageMetadata(meta, check_readable_only) ==
  IF meta = NoMetadataTable THEN ERR_QUERY
  ELSE CheckStorageMetadata(meta, check_readable_only)

\* _WriteMetadata: the metadata table of a new file.
WriteMetadata ==
  [table |-> "metadata",
   format_version |-> FORMAT_VERSION,
   compression_format |-> compression_format,
   serialization_format |-> serialization_format]

\* A variant of that loop without the test of line 651: a table for every
\* registered type that has none.
CreateAttributeContainerTablesAll(tables) ==
  tables \cup { t \in GetContainerTypes : ~HasTable(tables, t) }

\* The loop of Open over the registered container types: a table for each
\* type that is not excluded and has none.
CreateAttributeContainerTables(tables) ==
  tables \cup { t \in GetContainerTypes :
                  t \notin NO_CREATE_TABLE_CONTAINER_TYPES
                  /\ ~HasTable(tables, t) }

\* A variant of Open without its last loop: the counters are left as they
\* are.
InitSequenceNumbersSkipped(counters, tables, rows) == counters

\* The last loop of Open: the counters of the referenced types are set to the
\* number of rows of their tables.
InitSequenceNumbers(counters, tables, rows) ==
  [t \in DOMAIN counters |->
     IF t \in REFERENCED_CONTAINER_TYPES
     THEN GetNumberOfAttributeContainers(tables, rows, t)
     ELSE counters[t]]

\* A variant of lines 389-393 that numbers from the rows of the table, the
\* pending ones not counted.
NewSequenceNumberFromTable(counters, container_type) ==
  GetNumberOfAttributeContainers(f_tables, f_rows, container_type) + 1

\* _WriteNewAttributeContainer, lines 389-393: the sequence number of the
\* identifier the new container gets.
NewSequenceNumber(counters, container_type) ==
  GetAttributeContainerNextSequenceNumber(counters, container_type)

\* A variant of lines 436-438 that puts the new row first in the batch.
WriteCacheInsert(wc, values) ==
  IF wc = <<>> THEN <<COLUMN_NAMES, values>>
  ELSE <<wc[1], values>> \o Tail(wc)

\* _WriteNewAttributeContainer, lines 436-438: the values are appended to the
\* type's write cache list, which starts with the column names.
WriteCacheAppend(wc, values) ==
  Append(IF wc = <<>> THEN <<COLUMN_NAMES>> ELSE wc, values)

\* A variant of the test of line 440 that lets the list grow to one element
\* more.
WriteCacheFullLater(wc) == Len(wc) > MAXIMUM_WRITE_CACHE_SIZE

\* _WriteNewAttributeContainer, line 440: the flush threshold.
WriteCacheFull(wc) == Len(wc) >= MAXIMUM_WRITE_CACHE_SIZE

\* The test before the flush of a read or an update, len(write_cache) > 1.
HasPendingRows(wc) == Len(wc) > 1

\* GetAttributeContainerByIndex, line 480.
RowNumber(index) == index + 1

EmptyCounters == [t \in TableTypes |-> 0]
EmptyWriteCache == [t \in TableTypes |-> <<>>]
EmptyRows == [t \in TableTypes |-> <<>>]
EmptySeqs == [t \in TrackedTypes |-> <<>>]

(***************************************************************************)
(* Initial states: a newly constructed handle (__init__) and a file that   *)
(* does not exist yet or was written before.                               *)
(***************************************************************************)
InitHandle ==
  /\ is_open = FALSE
  /\ read_only = TRUE
  /\ connection = FALSE
  /\ cursor = FALSE
  /\ format_version = None
  /\ compression_format = COMPRESSION_FORMAT_ZLIB
  /\ serialization_format = SERIALIZER_FORMAT_JSON
  /\ sequence_numbers = EmptyCounters
  /\ write_cache = EmptyWriteCache
  /\ attribute_container_cache = <<>>
  /\ serializers_profiler = FALSE
  /\ storage_profiler = FALSE

InitHistory ==
  /\ last = Outcome("init", "-", NoError, 0, <<>>)
  /\ ids = EmptySeqs
  /\ lastw = [t \in TrackedTypes |-> [n \in 1..(MaxAdds + MaxBatchAdds) |-> NeverWritten]]
  /\ session = "none"
  /\ fresh = FALSE
  /\ addsAtOpen = [t \in TrackedTypes |-> 0]
  /\ profile = {}
  /\ twin = NoTwin

\* The metadata a file handed to Open can hold.
AnyMetadata ==
  [table : {"metadata"},
   format_version : {FORMAT_VERSION, UPGRADABLE_VERSION, READ_ONLY_VERSION,
                     UNSUPPORTED_VERSION},
   compression_format : COMPRESSION_FORMATS \cup {"bzip2", None},
   serialization_format : {SERIALIZER_FORMAT_JSON, "proto", None}]

\* The file does not exist yet.
Init ==
  /\ InitHandle
  /\ InitHistory
  /\ f_rows = EmptyRows
  /\ f_meta = NoFile
  /\ f_fault = FALSE
  /\ f_tables = {}

\* Any file: also a database without tables and a file with foreign metadata.
InitAnyFile ==
  /\ InitHandle
  /\ InitHistory
  /\ f_rows = EmptyRows
  /\ f_fault = FALSE
  /\ \/ f_meta \in {NoFile, NoMetadataTable} /\ f_tables = {}
     \/ f_meta \in AnyMetadata /\ f_tables \in {{}, TableTypes}

(***************************************************************************)
(* SQLiteStorageFile.__init__: a new handle replaces a closed one.         *)
(***************************************************************************)
NewHandle ==
  /\ ~is_open
  /\ is_open' = FALSE
  /\ read_only' = TRUE
  /\ connection' = FALSE
  /\ cursor' = FALSE
  /\ format_version' = None
  /\ compression_format' = COMPRESSION_FORMAT_ZLIB
  /\ serialization_format' = SERIALIZER_FORMAT_JSON
  /\ sequence_numbers' = EmptyCounters
  /\ write_cache' = EmptyWriteCache
  /\ attribute_container_cache' = <<>>
  /\ serializers_profiler' = FALSE
  /\ storage_profiler' = FALSE
  /\ last' = Outcome("new", "-", NoError, 0, <<>>)
  /\ UNCHANGED <<file, ids, lastw, session, fresh, addsAtOpen, profile>>

(***************************************************************************)
(* The caller configures the compression format of a handle before Open    *)
(* (the public attribute compression_format).                              *)
(***************************************************************************)
SetCompressionFormat(format) ==
  /\ ~is_open
  /\ compression_format' = format
  /\ last' = Outcome("configure", "-", NoError, 0, <<>>)
  /\ UNCHANGED <<profilers, profile>>
  /\ UNCHANGED <<file, is_open, read_only, connection, cursor, format_version,
                 serialization_format, sequence_numbers, write_cache,
                 attribute_container_cache, history>>

(***************************************************************************)
(* SQLiteStorageFile.Open.                                                 *)
(***************************************************************************)
\* Open raised before the handle was touched.
OpenRaisesEarly(err) ==
  /\ last' = Outcome("open", "-", err, 0, <<>>)
  /\ UNCHANGED <<file, handle, ids, lastw, session, fresh, addsAtOpen>>

\* Open raised in the metadata check: lines 632-635 have run, the handle has
\* the connection and counts as open; nothing closes it.
OpenRaisesInCheck(ro, err) ==
  /\ connection' = TRUE
  /\ cursor' = TRUE
  /\ is_open' = TRUE
  /\ read_only' = ro
  /\ last' = Outcome("open", "-", err, 0, <<>>)
  /\ session' = "failed"
  /\ fresh' = FALSE
  /\ UNCHANGED <<file, format_version, compression_format,
                 serialization_format, sequence_numbers, write_cache,
                 attribute_container_cache, ids, lastw, addsAtOpen>>

\* Open returns: the metadata is meta1 and the tables are tables1 afterwards,
\* and the handle took the formats in fmt (_ReadAndCheckStorageMetadata,
\* lines 254-256) unless it wrote the metadata itself.
OpenReturns(ro, meta1, tables1, created) ==
  /\ connection' = TRUE
  /\ cursor' = TRUE
  /\ is_open' = TRUE
  /\ read_only' = ro
  /\ f_meta' = meta1
  /\ f_fault' = f_fault
  /\ f_tables' = tables1
  /\ f_rows' = f_rows
  /\ format_version' = IF created THEN format_version ELSE f_meta.format_version
  /\ compression_format' =
       IF created THEN compression_format ELSE f_meta.compression_format
  /\ serialization_format' =
       IF created THEN serialization_format ELSE f_meta.serialization_format
  /\ sequence_numbers' = InitSequenceNumbers(sequence_numbers, tables1, f_rows)
  /\ last' = Outcome("open", "-", NoError, 0, <<>>)
  /\ session' = "ok"
  /\ fresh' = created
  /\ addsAtOpen' = [t \in TrackedTypes |-> Len(ids[t])]
  /\ UNCHANGED <<write_cache, attribute_container_cache, ids, lastw>>

\* A variant of Open whose loop over the container types runs for a read-only
\* Open as well.
OpenStoreTablesAlways(ro) ==
  IF ro /\ f_meta = NoFile THEN OpenRaisesEarly(ERR_CONNECT)
  ELSE IF ro
  THEN LET err == ReadAndCheckStorageMetadata(f_meta, TRUE)
       IN IF err # NoError THEN OpenRaisesInCheck(ro, err)
          ELSE OpenReturns(ro, f_meta,
                           CreateAttributeContainerTables(f_tables), FALSE)
  ELSE IF f_meta \in {NoFile, NoMetadataTable}
  THEN OpenReturns(ro, WriteMetadata,
                   CreateAttributeContainerTables(f_tables), TRUE)
  ELSE LET err == ReadAndCheckStorageMetadata(f_meta, FALSE)
       IN IF err # NoError THEN OpenRaisesInCheck(ro, err)
          ELSE OpenReturns(ro, UpdateStorageMetadataFormatVersion(f_meta),
                           CreateAttributeContainerTables(f_tables), FALSE)

\* Open, lines 596-665: the connection is made and the store set up.
OpenStore(ro) ==
  \* sqlite3.connect of a file that does not exist, with mode=ro.
  IF ro /\ f_meta = NoFile THEN OpenRaisesEarly(ERR_CONNECT)
  ELSE IF ro
  THEN LET err == ReadAndCheckStorageMetadata(f_meta, TRUE)
       IN IF err # NoError THEN OpenRaisesInCheck(ro, err)
          ELSE OpenReturns(ro, f_meta, f_tables, FALSE)
  ELSE IF f_meta \in {NoFile, NoMetadataTable}
  THEN OpenReturns(ro, WriteMetadata,
                   CreateAttributeContainerTables(f_tables), TRUE)
  ELSE LET err == ReadAndCheckStorageMetadata(f_meta, FALSE)
       IN IF err # NoError THEN OpenRaisesInCheck(ro, err)
          ELSE OpenReturns(ro, UpdateStorageMetadataFormatVersion(f_meta),
                           CreateAttributeContainerTables(f_tables), FALSE)

\* A variant of Open with the checks of lines 590-594 in the other order.
OpenPathFirst(path, ro) ==
  /\ UNCHANGED <<profilers, profile>>
  /\ IF path = NoPath THEN OpenRaisesEarly(ERR_MISSING_PATH)
     ELSE IF is_open THEN OpenRaisesEarly(ERR_ALREADY_OPEN)
     ELSE OpenStore(ro)

\* Open, lines 590-665; it calls no profiler.
Open(path, ro) ==
  /\ UNCHANGED <<profilers, profile>>
  /\ IF is_open THEN OpenRaisesEarly(ERR_ALREADY_OPEN)
     ELSE IF path = NoPath THEN OpenRaisesEarly(ERR_MISSING_PATH)
     ELSE OpenStore(ro)

(***************************************************************************)
(* SQLiteAttributeContainerStore.Close: the write caches are flushed, the  *)
(* connection is committed and closed.                                     *)
(***************************************************************************)
\* A variant of Close that drops the write caches without flushing them.
CloseUnflushed ==
  /\ UNCHANGED <<profilers, profile>>
  /\ IF ~is_open
     THEN /\ last' = Outcome("close", "-", ERR_CLOSED, 0, <<>>)
          /\ UNCHANGED <<file, handle, ids, lastw, session, fresh, addsAtOpen>>
     ELSE /\ write_cache' = EmptyWriteCache
          /\ connection' = FALSE
          /\ cursor' = FALSE
          /\ is_open' = FALSE
          /\ last' = Outcome("close", "-", NoError, 0, <<>>)
          /\ session' = "none"
          /\ fresh' = FALSE
          /\ UNCHANGED <<file, read_only, format_version, compression_format,
                         serialization_format, sequence_numbers,
                         attribute_container_cache, ids, lastw, addsAtOpen>>

Close ==
  /\ UNCHANGED <<profilers, profile>>
  /\ IF ~is_open
     THEN /\ last' = Outcome("close", "-", ERR_CLOSED, 0, <<>>)
          /\ UNCHANGED <<file, handle, ids, lastw, session, fresh, addsAtOpen>>
     ELSE LET pending == { t \in TableTypes : HasPendingRows(write_cache[t]) }
              failing == { t \in pending :
                          FlushWriteCacheRaises(f_tables, f_fault, t,
                                                write_cache[t]) }
          IN IF failing = {}
             THEN /\ f_rows' = [t \in TableTypes |->
                                  IF t \in pending
                                  THEN f_rows[t] \o Tail(write_cache[t])
                                  ELSE f_rows[t]]
                  /\ write_cache' = EmptyWriteCache
                  /\ connection' = FALSE
                  /\ cursor' = FALSE
                  /\ is_open' = FALSE
                  /\ last' = Outcome("close", "-", NoError, 0, <<>>)
                  /\ session' = "none"
                  /\ fresh' = FALSE
                  /\ UNCHANGED <<f_fault, f_meta, f_tables, read_only, format_version,
                                 compression_format, serialization_format,
                                 sequence_numbers, attribute_container_cache,
                                 ids, lastw, addsAtOpen>>
             \* A flush raises: the types flushed before it (any of the others,
             \* by the order of the dictionary) and the failing one have lost
             \* their column names, and the handle stays open.
             ELSE \E f \in failing : \E done \in SUBSET (pending \ failing) :
                  /\ f_rows' = [t \in TableTypes |->
                                  IF t \in done
                                  THEN f_rows[t] \o Tail(write_cache[t])
                                  ELSE f_rows[t]]
                  /\ write_cache' = [t \in TableTypes |->
                                       IF t \in done \cup {f}
                                       THEN Tail(write_cache[t])
                                       ELSE write_cache[t]]
                  /\ last' = Outcome("close", "-", ERR_QUERY, 0, <<>>)
                  /\ UNCHANGED <<f_fault, f_meta, f_tables, is_open, read_only, connection,
                                 cursor, format_version, compression_format,
                                 serialization_format, sequence_numbers,
                                 attribute_container_cache, ids, lastw,
                                 session, fresh, addsAtOpen>>

(***************************************************************************)
(* AddAttributeContainer: _RaiseIfNotWritable, then                        *)
(* SQLiteStorageFile._WriteNewAttributeContainer.                          *)
(***************************************************************************)
\* The profiler calls of _WriteNewAttributeContainer: a container of a type
\* without schema is serialized (lines 271-292) and sampled (lines 428-431).
ProfileOfAdd(T) ==
  IF ~is_open \/ read_only \/ GetAttributeContainerSchema(T) THEN {}
  ELSE Recorded(serializers_profiler, "serialize")
         \cup Recorded(storage_profiler, "write_new")

WriteNewAttributeContainer(T, v) ==
  LET n == NewSequenceNumber(sequence_numbers, T)
      wc == WriteCacheAppend(write_cache[T], v)
      full == WriteCacheFull(wc)
      raised == full /\ FlushWriteCacheRaises(f_tables, f_fault, T, wc)
  IN /\ sequence_numbers' = [sequence_numbers EXCEPT ![T] = n]
     /\ ids' = [ids EXCEPT ![T] = Append(@, n)]
     /\ IF raised
        \* The INSERT raises at line 441: the list has lost its column names,
        \* lines 442-446 do not run.
        THEN /\ write_cache' =
                  [write_cache EXCEPT
                     ![T] = IF write_cache[T] = <<>> THEN <<>> ELSE Tail(wc)]
             /\ last' = Outcome("add", T, ERR_QUERY, n, <<>>)
             /\ UNCHANGED <<f_rows, attribute_container_cache, lastw>>
        ELSE /\ f_rows' = IF full THEN FlushWriteCache(f_rows, T, wc)
                          ELSE f_rows
             /\ write_cache' =
                  [write_cache EXCEPT
                     ![T] = IF full THEN <<COLUMN_NAMES>> ELSE wc]
             /\ attribute_container_cache' =
                  CacheAttributeContainerByIndex(
                    attribute_container_cache, T, n - 1, v)
             /\ lastw' = [lastw EXCEPT ![T][n] = v]
             /\ last' = Outcome("add", T, NoError, n, <<>>)
     /\ UNCHANGED <<f_fault, f_meta, f_tables, is_open, read_only, connection, cursor,
                    format_version, compression_format, serialization_format,
                    session, fresh, addsAtOpen>>

AddAttributeContainer(T, v) ==
  /\ UNCHANGED profilers /\ profile' = profile \cup ProfileOfAdd(T)
  /\ IF ~is_open \/ read_only
     THEN /\ last' = Outcome("add", T, ERR_NOT_WRITABLE, 0, <<>>)
          /\ UNCHANGED <<file, handle, ids, lastw, session, fresh, addsAtOpen>>
     ELSE WriteNewAttributeContainer(T, v)

\* The containers of a type the store holds, flushed or pending.
NumberOfContainers(T) == Len(f_rows[T]) + Len(PendingRows(write_cache[T]))

\* The flush of a type's pending rows before a read or an update (lines
\* 316-319, 468-471): the rows afterwards.
RowsAfterCommit(T) ==
  IF HasPendingRows(write_cache[T])
  THEN FlushWriteCache(f_rows, T, write_cache[T])
  ELSE f_rows

\* That flush raises: the INSERT names a table that does not exist.
CommitRaises(T) ==
  /\ HasPendingRows(write_cache[T])
  /\ FlushWriteCacheRaises(f_tables, f_fault, T, write_cache[T])

\* A variant of the flush before a read or an update that commits the
\* pending rows of every container type.
WriteCacheAfterCommitAll(T) ==
  IF ~HasPendingRows(write_cache[T]) THEN write_cache
  ELSE IF CommitRaises(T) THEN [write_cache EXCEPT ![T] = Tail(@)]
  ELSE [t \in TableTypes |-> <<>>]

\* The write cache after that flush: the entry is deleted, or, when the flush
\* raised, left without its column names.
WriteCacheAfterCommit(T) ==
  IF ~HasPendingRows(write_cache[T]) THEN write_cache
  ELSE IF CommitRaises(T) THEN [write_cache EXCEPT ![T] = Tail(@)]
  ELSE [write_cache EXCEPT ![T] = <<>>]

(***************************************************************************)
(* UpdateAttributeContainer: _RaiseIfNotWritable, then                     *)
(* SQLiteStorageFile._WriteExistingAttributeContainer.  The container has  *)
(* identifier (T, n) and value v; it is the object the index cache holds   *)
(* for that identifier (cached_object) or another object.                  *)
(***************************************************************************)
\* A variant of the UPDATE that is executed inside the test of the storage
\* profiler of line 344.
UpdateRowTimed(rows, T, n, v) ==
  IF storage_profiler /\ n \in 1..Len(rows[T])
  THEN [rows EXCEPT ![T][n] = v] ELSE rows

\* A variant of the UPDATE that sets only the columns of the attributes that
\* have a value.
UpdateRowSetOnly(rows, T, n, v) ==
  IF n \in 1..Len(rows[T]) /\ v # NULL THEN [rows EXCEPT ![T][n] = v] ELSE rows

\* UPDATE T SET ... WHERE _identifier = n (lines 321-348): every column of the
\* schema is set, to NULL for an attribute without value.
UpdateRow(rows, T, n, v) ==
  IF n \in 1..Len(rows[T]) THEN [rows EXCEPT ![T][n] = v] ELSE rows

\* The cached object was given the value v by the caller.
CacheMutated(cache, key, v) ==
  [k \in 1..Len(cache) |->
     IF cache[k].key = key THEN [key |-> key, value |-> v] ELSE cache[k]]

\* A variant of _WriteExistingAttributeContainer with the flush of lines
\* 316-319 before the schema test of lines 310-314.
WriteExistingAttributeContainerFlushFirst(T, n, v, cached_object) ==
  IF ~GetAttributeContainerSchema(T)
  THEN /\ write_cache' = WriteCacheAfterCommit(T)
       /\ f_rows' = IF CommitRaises(T) THEN f_rows ELSE RowsAfterCommit(T)
       /\ last' = Outcome("update", T, ERR_NO_SCHEMA, n, <<>>)
       /\ UNCHANGED <<f_fault, f_meta, f_tables, is_open, read_only,
                      connection, cursor, format_version, compression_format,
                      serialization_format, sequence_numbers,
                      attribute_container_cache, ids, lastw>>
  ELSE IF CommitRaises(T) \/ ~HasTable(f_tables, T)
  THEN /\ write_cache' = WriteCacheAfterCommit(T)
       /\ last' = Outcome("update", T, ERR_QUERY, n, <<>>)
       /\ UNCHANGED <<file, is_open, read_only, connection, cursor,
                      format_version, compression_format, serialization_format,
                      sequence_numbers, attribute_container_cache, ids, lastw>>
  ELSE /\ write_cache' = WriteCacheAfterCommit(T)
       /\ f_rows' = UpdateRow(RowsAfterCommit(T), T, n, v)
       /\ attribute_container_cache' =
            IF cached_object
            THEN CacheMutated(attribute_container_cache, CacheKey(T, n - 1), v)
            ELSE attribute_container_cache
       /\ lastw' = [lastw EXCEPT ![T][n] = v]
       /\ last' = Outcome("update", T, NoError, n, <<>>)
       /\ UNCHANGED <<f_fault, f_meta, f_tables, is_open, read_only,
                      connection, cursor, format_version, compression_format,
                      serialization_format, sequence_numbers, ids>>

\* _WriteExistingAttributeContainer, lines 296-356.
WriteExistingAttributeContainer(T, n, v, cached_object) ==
  IF ~GetAttributeContainerSchema(T)
  THEN /\ last' = Outcome("update", T, ERR_NO_SCHEMA, n, <<>>)
       /\ UNCHANGED <<file, handle, ids, lastw>>
  ELSE IF CommitRaises(T) \/ ~HasTable(f_tables, T)
  THEN /\ write_cache' = WriteCacheAfterCommit(T)
       /\ last' = Outcome("update", T, ERR_QUERY, n, <<>>)
       /\ UNCHANGED <<file, is_open, read_only, connection, cursor,
                      format_version, compression_format, serialization_format,
                      sequence_numbers, attribute_container_cache, ids, lastw>>
  ELSE /\ write_cache' = WriteCacheAfterCommit(T)
       /\ f_rows' = UpdateRow(RowsAfterCommit(T), T, n, v)
       /\ attribute_container_cache' =
            IF cached_object
            THEN CacheMutated(attribute_container_cache, CacheKey(T, n - 1), v)
            ELSE attribute_container_cache
       /\ lastw' = [lastw EXCEPT ![T][n] = v]
       /\ last' = Outcome("update", T, NoError, n, <<>>)
       /\ UNCHANGED <<f_fault, f_meta, f_tables, is_open, read_only, connection, cursor,
                      format_version, compression_format, serialization_format,
                      sequence_numbers, ids>>

\* The profiler calls of _WriteExistingAttributeContainer: the UPDATE is
\* timed (lines 344-356).
ProfileOfUpdate(T) ==
  IF ~is_open \/ read_only \/ ~GetAttributeContainerSchema(T) \/ CommitRaises(T)
  THEN {}
  ELSE Recorded(storage_profiler, "write_existing")

UpdateAttributeContainer(T, n, v, cached_object) ==
  /\ UNCHANGED profilers
  /\ profile' = profile \cup ProfileOfUpdate(T)
  /\ n \in 1..NumberOfContainers(T)
  /\ cached_object =>
       /\ is_open /\ ~read_only
       /\ CacheHas(attribute_container_cache, CacheKey(T, n - 1))
  /\ UNCHANGED <<session, fresh, addsAtOpen>>
  /\ IF ~is_open \/ read_only
     THEN /\ last' = Outcome("update", T, ERR_NOT_WRITABLE, n, <<>>)
          /\ UNCHANGED <<file, handle, ids, lastw>>
     ELSE WriteExistingAttributeContainer(T, n, v, cached_object)

(***************************************************************************)
(* SQLiteStorageFile.GetAttributeContainerByIndex.                         *)
(***************************************************************************)
\* The profiler calls of _CreatetAttributeContainerFromRow for a row of a
\* type without schema (lines 132-138, 208-224).
ProfileOfRow(T) ==
  IF GetAttributeContainerSchema(T) THEN {}
  ELSE Recorded(storage_profiler, "read_create")
         \cup Recorded(serializers_profiler, "deserialize")

\* The profiler calls of GetAttributeContainerByIndex: the fetch of the row
\* is timed (lines 490-498) and the row that was found is created.
ProfileOfGetByIndex(T, index) ==
  IF CacheHas(attribute_container_cache, CacheKey(T, index)) THEN {}
  ELSE IF CommitRaises(T) \/ ~HasTable(f_tables, T) THEN {}
  ELSE Recorded(storage_profiler, "get_container_by_index")
         \cup IF RowNumber(index) \in 1..Len(RowsAfterCommit(T)[T])
              THEN ProfileOfRow(T) ELSE {}

GetAttributeContainerByIndex(T, index) ==
  /\ UNCHANGED profilers
  /\ profile' = profile \cup ProfileOfGetByIndex(T, index)
  /\ is_open
  /\ index \in 0..NumberOfContainers(T)
  /\ UNCHANGED <<f_fault, f_meta, f_tables, is_open, read_only, connection, cursor,
                 format_version, compression_format, serialization_format,
                 sequence_numbers, ids, lastw, session, fresh, addsAtOpen>>
  /\ IF CacheHas(attribute_container_cache, CacheKey(T, index))
     \* Lines 464-466: the cached container is returned.
     THEN /\ attribute_container_cache' =
               TouchCachedAttributeContainer(attribute_container_cache, T, index)
          /\ last' = Outcome("get", T, NoError, RowNumber(index),
                             <<CacheValue(attribute_container_cache,
                                          CacheKey(T, index))>>)
          /\ UNCHANGED <<f_rows, write_cache>>
     ELSE IF CommitRaises(T) \/ ~HasTable(f_tables, T)
     THEN /\ write_cache' = WriteCacheAfterCommit(T)
          /\ last' = Outcome("get", T, ERR_QUERY, RowNumber(index), <<>>)
          /\ UNCHANGED <<f_rows, attribute_container_cache>>
     ELSE LET rows == RowsAfterCommit(T)
              row_number == RowNumber(index)
          IN /\ write_cache' = WriteCacheAfterCommit(T)
             /\ f_rows' = rows
             /\ IF row_number \in 1..Len(rows[T])
                THEN /\ attribute_container_cache' =
                          CacheAttributeContainerByIndex(
                            attribute_container_cache, T, index,
                            rows[T][row_number])
                     /\ last' = Outcome("get", T, NoError, row_number,
                                        <<rows[T][row_number]>>)
                \* Lines 500-501: no row, None is returned.
                ELSE /\ last' = Outcome("get", T, NoError, row_number, <<>>)
                     /\ UNCHANGED attribute_container_cache

(***************************************************************************)
(* SQLiteStorageFile.GetAttributeContainers and GetSortedEvents, consumed  *)
(* to the end: _GetAttributeContainersWithFilter flushes the pending rows  *)
(* of the type and selects.                                                *)
(***************************************************************************)
\* A SQL filter expression: None, or bounds on the timestamp column, or a
\* comparison of a column the table does not have.
SqlFilter(lower_none, lower, upper_none, upper, unknown_column) ==
  [lower_none |-> lower_none, lower |-> lower,
   upper_none |-> upper_none, upper |-> upper,
   unknown_column |-> unknown_column]
NoSqlFilter == SqlFilter(TRUE, 0, TRUE, 0, FALSE)

\* GetSortedEvents, lines 557-569: the filter the time range makes; a bound
\* is used when it is truthy.
TimeRangeFilter(time_range) ==
  IF time_range.none THEN NoSqlFilter
  ELSE SqlFilter(
         ~Truthy(time_range.start_none, time_range.start_timestamp),
         time_range.start_timestamp,
         ~Truthy(time_range.end_none, time_range.end_timestamp),
         time_range.end_timestamp,
         FALSE)

\* acstore sqlite_store.PythonAST2SQL: the comparison is emitted as SQL, the
\* attribute name as it is written; the function is given the expression
\* alone, not the schema (line 538).
PythonAST2SQL(filter_expression) ==
  IF filter_expression.kind = "unknown_attribute"
  THEN SqlFilter(TRUE, 0, TRUE, 0, TRUE)
  ELSE SqlFilter(FALSE, filter_expression.value, TRUE, 0, FALSE)

\* The WHERE clause of the SELECT.
InFilter(sql_filter, timestamp) ==
  /\ ~sql_filter.lower_none => timestamp >= sql_filter.lower
  /\ ~sql_filter.upper_none => timestamp <= sql_filter.upper

\* SQLiteAttributeContainerStore._GetAttributeContainersWithFilter: the
\* values of the selected rows, in rowid order or ordered by the value.
GetAttributeContainersWithFilter(rows, sql_filter, ordered) ==
  LET selected == SelectSeq(rows, LAMBDA v : InFilter(sql_filter, v))
  IN IF ordered THEN SortSeq(selected, LAMBDA a, b : a < b) ELSE selected

\* A variant of _GetAttributeContainersWithFilter that selects without the
\* flush.
RowsSelectedUnflushed(T) == f_rows

\* SQLiteAttributeContainerStore._GetAttributeContainersWithFilter: the
\* pending rows of the type are flushed before the SELECT.
RowsSelected(T) == RowsAfterCommit(T)

\* The generator _GetAttributeContainersWithFilter returns, consumed to the
\* end; call holds the arguments the public method was given.
ReadAll(op, T, call, sql_filter, ordered) ==
  /\ is_open
  /\ UNCHANGED profilers
  /\ profile' = profile \cup
       IF CommitRaises(T) \/ ~HasTable(f_tables, T) \/ sql_filter.unknown_column
          \/ GetAttributeContainersWithFilter(
               RowsSelected(T)[T], sql_filter, ordered) = <<>>
       THEN {} ELSE ProfileOfRow(T)
  /\ UNCHANGED <<f_fault, f_meta, f_tables, is_open, read_only, connection, cursor,
                 format_version, compression_format, serialization_format,
                 sequence_numbers, attribute_container_cache, ids, lastw,
                 session, fresh, addsAtOpen>>
  /\ write_cache' = WriteCacheAfterCommit(T)
  /\ IF CommitRaises(T) \/ ~HasTable(f_tables, T)
     THEN /\ last' = [Outcome(op, T, ERR_QUERY, 0, <<>>)
                        EXCEPT !.arg = call.arg, !.filter = call.filter]
          /\ UNCHANGED f_rows
     ELSE IF sql_filter.unknown_column
     \* The SELECT raises sqlite3.OperationalError: no such column.
     THEN /\ f_rows' = RowsSelected(T)
          /\ last' = [Outcome(op, T, ERR_QUERY, 0, <<>>)
                        EXCEPT !.arg = call.arg, !.filter = call.filter]
     ELSE /\ f_rows' = RowsSelected(T)
          /\ last' = [Outcome(op, T, NoError, 0,
                              GetAttributeContainersWithFilter(
                                RowsSelected(T)[T], sql_filter, ordered))
                        EXCEPT !.arg = call.arg, !.filter = call.filter]

\* GetAttributeContainers, lines 528-542: ast.parse raises for a string that
\* is no expression, before anything else is done; a filter expression is
\* compiled and handed to _GetAttributeContainersWithFilter.
GetAttributeContainers(T, filter_expression) ==
  IF filter_expression.kind = "malformed"
  THEN /\ last' = [Outcome("get_all", T, ERR_SYNTAX, 0, <<>>)
                     EXCEPT !.filter = filter_expression]
       /\ UNCHANGED <<file, handle, history, profilers, profile>>
  ELSE ReadAll("get_all", T,
               [arg |-> NoTimeRange, filter |-> filter_expression],
               IF filter_expression.kind = "none" THEN NoSqlFilter
               ELSE PythonAST2SQL(filter_expression),
               FALSE)

\* A variant of GetSortedEvents without order_by='timestamp' (line 573).
GetSortedEventsUnordered(time_range) ==
  ReadAll("get_sorted", CONTAINER_TYPE_EVENT,
          [arg |-> time_range, filter |-> NoFilterExpression],
          TimeRangeFilter(time_range), FALSE)

GetSortedEvents(time_range) ==
  ReadAll("get_sorted", CONTAINER_TYPE_EVENT,
          [arg |-> time_range, filter |-> NoFilterExpression],
          TimeRangeFilter(time_range), TRUE)

(***************************************************************************)
(* The environment: the database starts or stops rejecting INSERT          *)
(* statements (sqlite3.OperationalError, which _FlushWriteCache turns into *)
(* IOError).                                                               *)
(***************************************************************************)
DatabaseFault ==
  /\ f_fault' = ~f_fault
  /\ UNCHANGED <<f_meta, f_tables, f_rows, handle, last, history>>
  /\ UNCHANGED <<profilers, profile>>

(***************************************************************************)
(* The specifications.                                                     *)
(***************************************************************************)
\* Every operation, on a file this store creates.
Next ==
  \/ NewHandle /\ UNCHANGED twin
  \/ \E path \in {NoPath, FilePath}, ro \in BOOLEAN : Open(path, ro) /\ UNCHANGED twin
  \/ Close /\ UNCHANGED twin
  \/ \E T \in UsedTypes :
       TotalAdds < MaxAdds /\ AddAttributeContainer(T, TotalAdds + 1) /\ UNCHANGED twin
  \/ \E T \in UsedTypes, n \in 1..MaxAdds, c \in BOOLEAN :
       UpdateAttributeContainer(T, n, UPDATED, c) /\ UNCHANGED twin
  \/ \E T \in UsedTypes, index \in 0..MaxAdds :
       GetAttributeContainerByIndex(T, index) /\ UNCHANGED twin
  \/ \E T \in UsedTypes : GetAttributeContainers(T, NoFilterExpression) /\ UNCHANGED twin
  \/ GetSortedEvents(NoTimeRange) /\ UNCHANGED twin

Spec == Init /\ [][Next]_vars

\* Opening and closing, on any file.
NextOpen ==
  \/ NewHandle /\ UNCHANGED twin
  \/ \E path \in {NoPath, FilePath}, ro \in BOOLEAN : Open(path, ro) /\ UNCHANGED twin
  \/ Close /\ UNCHANGED twin
  \/ \E T \in UsedTypes : GetAttributeContainerByIndex(T, 0) /\ UNCHANGED twin

SpecOpen == InitAnyFile /\ [][NextOpen]_vars

\* The write batches of one write session: adds alone, more of them.
NextBatch ==
  \/ Open(FilePath, FALSE) /\ UNCHANGED twin
  \/ \E T \in UsedTypes :
       TotalAdds < MaxBatchAdds /\ AddAttributeContainer(T, TotalAdds + 1) /\ UNCHANGED twin

SpecBatch == Init /\ [][NextBatch]_vars

\* The timestamps of the events and the time ranges GetSortedEvents is given.
Timestamps == MinTimestamp..MaxTimestamp
Bounds == {<<TRUE, 0>>} \cup {<<FALSE, t>> : t \in Timestamps}
TimeRanges ==
  {NoTimeRange} \cup {TimeRange(s[1], s[2], e[1], e[2]) : s, e \in Bounds}

\* Events with any timestamps, added in any order and read in time ranges.
NextRange ==
  \/ Open(FilePath, FALSE) /\ UNCHANGED twin
  \/ \E t \in Timestamps :
       /\ Len(ids[CONTAINER_TYPE_EVENT]) < MaxRangeAdds
       /\ AddAttributeContainer(CONTAINER_TYPE_EVENT, t) /\ UNCHANGED twin
  \/ \E time_range \in TimeRanges : GetSortedEvents(time_range) /\ UNCHANGED twin

SpecRange == Init /\ [][NextRange]_vars

\* The filter expressions GetAttributeContainers is given.
FilterExpressions ==
  {NoFilterExpression, FilterExpression("malformed", 0),
   FilterExpression("unknown_attribute", 0)}
    \cup {FilterExpression("minimum", n) : n \in 1..MaxAdds}

\* Events read with filter expressions in a write session.
NextFilter ==
  \/ Open(FilePath, FALSE) /\ UNCHANGED twin
  \/ \E T \in UsedTypes :
       TotalAdds < MaxAdds /\ AddAttributeContainer(T, TotalAdds + 1) /\ UNCHANGED twin
  \/ \E filter_expression \in FilterExpressions :
       GetAttributeContainers(CONTAINER_TYPE_EVENT, filter_expression) /\ UNCHANGED twin
  \/ \E index \in 0..MaxAdds :
       GetAttributeContainerByIndex(CONTAINER_TYPE_EVENT, index) /\ UNCHANGED twin

SpecFilter == Init /\ [][NextFilter]_vars

\* Handles with any configured compression format opening, writing and
\* closing any file.
NextFormats ==
  \/ NewHandle /\ UNCHANGED twin
  \/ \E format \in COMPRESSION_FORMATS : SetCompressionFormat(format) /\ UNCHANGED twin
  \/ \E ro \in BOOLEAN : Open(FilePath, ro) /\ UNCHANGED twin
  \/ Close /\ UNCHANGED twin
  \/ \E T \in UsedTypes :
       TotalAdds < MaxFormatAdds /\ AddAttributeContainer(T, TotalAdds + 1) /\ UNCHANGED twin
  \/ \E T \in UsedTypes, n \in 1..MaxFormatAdds :
       UpdateAttributeContainer(T, n, UPDATED, FALSE) /\ UNCHANGED twin

SpecFormats == InitAnyFile /\ [][NextFormats]_vars

\* One handle writing to a database whose INSERT statements can fail.
NextFault ==
  \/ Open(FilePath, FALSE) /\ UNCHANGED twin
  \/ Close /\ UNCHANGED twin
  \/ \E T \in UsedTypes :
       TotalAdds < MaxAdds /\ AddAttributeContainer(T, TotalAdds + 1) /\ UNCHANGED twin
  \/ \E T \in UsedTypes, n \in 1..MaxAdds :
       UpdateAttributeContainer(T, n, UPDATED, FALSE) /\ UNCHANGED twin
  \/ \E T \in UsedTypes, index \in 0..MaxAdds :
       GetAttributeContainerByIndex(T, index) /\ UNCHANGED twin
  \/ DatabaseFault /\ UNCHANGED twin

SpecFault == Init /\ [][NextFault]_vars

\* One write session after another with updates that set and unset the
\* attribute of a container.
NextUpdate ==
  \/ Open(FilePath, FALSE) /\ UNCHANGED twin
  \/ Close /\ UNCHANGED twin
  \/ NewHandle /\ UNCHANGED twin
  \/ \E T \in UsedTypes :
       TotalAdds < MaxUpdateAdds /\ AddAttributeContainer(T, TotalAdds + 1) /\ UNCHANGED twin
  \/ \E T \in UsedTypes, n \in 1..MaxUpdateAdds, v \in {UPDATED, NULL} :
       UpdateAttributeContainer(T, n, v, FALSE) /\ UNCHANGED twin

SpecUpdate == Init /\ [][NextUpdate]_vars

\* get_by_index returned None for the type: the index had no row.
Missed(T) ==
  /\ last.op = "get" /\ last.type = T
  /\ last.err = NoError /\ last.ret = <<>>

\* Sessions in which every add of a type comes right after a get_by_index of
\* that type that found no row.
NextMiss ==
  \/ NewHandle /\ UNCHANGED twin
  \/ Open(FilePath, FALSE) /\ UNCHANGED twin
  \/ Close /\ UNCHANGED twin
  \/ \E T \in UsedTypes :
       /\ TotalAdds < MaxAdds
       /\ Missed(T)
       /\ AddAttributeContainer(T, TotalAdds + 1) /\ UNCHANGED twin
  \/ \E T \in UsedTypes, index \in 0..MaxAdds :
       GetAttributeContainerByIndex(T, index) /\ UNCHANGED twin

SpecMiss == Init /\ [][NextMiss]_vars

\* Write sessions with containers of a type that has a schema and of one
\* that has none.
NextOpaque ==
  \/ Open(FilePath, FALSE) /\ UNCHANGED twin
  \/ Close /\ UNCHANGED twin
  \/ \E T \in {CONTAINER_TYPE_EVENT, CONTAINER_TYPE_OPAQUE} :
       TotalAdds < MaxAdds /\ AddAttributeContainer(T, TotalAdds + 1) /\ UNCHANGED twin
  \/ \E T \in {CONTAINER_TYPE_EVENT, CONTAINER_TYPE_OPAQUE},
        n \in 1..MaxAdds :
       UpdateAttributeContainer(T, n, UPDATED, FALSE) /\ UNCHANGED twin

SpecOpaque == Init /\ [][NextOpaque]_vars

(***************************************************************************)
(* SetSerializersProfiler and SetStorageProfiler, lines 667-681.           *)
(***************************************************************************)
SetSerializersProfiler(profiler) ==
  /\ serializers_profiler' = profiler
  /\ UNCHANGED <<file, handle, last, history, storage_profiler, profile>>

SetStorageProfiler(profiler) ==
  /\ storage_profiler' = profiler
  /\ UNCHANGED <<file, handle, last, history, serializers_profiler, profile>>

(***************************************************************************)
(* Every operation is run twice from the same state of the file and of the *)
(* handle: as the store is, with the profilers it has, and on a store      *)
(* without profilers.                                                      *)
(***************************************************************************)
\* The file, the handle and the outcome of the last call: everything but the
\* profilers and what they recorded.
StoreState ==
  [f_meta |-> f_meta, f_tables |-> f_tables, f_rows |-> f_rows,
   f_fault |-> f_fault, is_open |-> is_open, read_only |-> read_only,
   connection |-> connection, cursor |-> cursor,
   format_version |-> format_version,
   compression_format |-> compression_format,
   serialization_format |-> serialization_format,
   sequence_numbers |-> sequence_numbers, write_cache |-> write_cache,
   attribute_container_cache |-> attribute_container_cache,
   last |-> last, ids |-> ids, lastw |-> lastw, session |-> session,
   fresh |-> fresh, addsAtOpen |-> addsAtOpen]

\* The store state after the step.
StoreStateAfter ==
  [f_meta |-> f_meta', f_tables |-> f_tables', f_rows |-> f_rows',
   f_fault |-> f_fault', is_open |-> is_open', read_only |-> read_only',
   connection |-> connection', cursor |-> cursor',
   format_version |-> format_version',
   compression_format |-> compression_format',
   serialization_format |-> serialization_format',
   sequence_numbers |-> sequence_numbers', write_cache |-> write_cache',
   attribute_container_cache |-> attribute_container_cache',
   last |-> last', ids |-> ids', lastw |-> lastw', session |-> session',
   fresh |-> fresh', addsAtOpen |-> addsAtOpen']

\* The container types of the operations: one with a schema and one without.
ProfiledTypes == {CONTAINER_TYPE_EVENT, CONTAINER_TYPE_OPAQUE}

Operation(name, type, n) == [name |-> name, type |-> type, n |-> n]

Operations ==
  {Operation("open", "-", 0), Operation("close", "-", 0)}
    \cup {Operation("add", T, 0) : T \in ProfiledTypes}
    \cup {Operation("get_all", T, 0) : T \in ProfiledTypes}
    \cup {Operation("update", T, n) : T \in ProfiledTypes, n \in 1..MaxProfileAdds}
    \cup {Operation("get", T, n) : T \in ProfiledTypes, n \in 0..MaxProfileAdds}

\* The call of an operation.
Run(op) ==
  IF op.name = "open" THEN Open(FilePath, FALSE)
  ELSE IF op.name = "close" THEN Close
  ELSE IF op.name = "add"
  THEN TotalAdds < MaxProfileAdds /\ AddAttributeContainer(op.type, TotalAdds + 1)
  ELSE IF op.name = "update"
  THEN UpdateAttributeContainer(op.type, op.n, UPDATED, FALSE)
  ELSE IF op.name = "get" THEN GetAttributeContainerByIndex(op.type, op.n)
  ELSE GetAttributeContainers(op.type, NoFilterExpression)

\* The operation is called on the store as it is.
FirstRun(op) ==
  /\ twin.phase = "first"
  /\ Run(op)
  /\ twin' = [phase |-> "rewind", op |-> op, before |-> StoreState,
              after |-> StoreStateAfter, profilers |-> profilers]

\* A store without profilers in the state the operation was called in.
Rewind ==
  /\ twin.phase = "rewind"
  /\ f_meta' = twin.before.f_meta
  /\ f_tables' = twin.before.f_tables
  /\ f_rows' = twin.before.f_rows
  /\ f_fault' = twin.before.f_fault
  /\ is_open' = twin.before.is_open
  /\ read_only' = twin.before.read_only
  /\ connection' = twin.before.connection
  /\ cursor' = twin.before.cursor
  /\ format_version' = twin.before.format_version
  /\ compression_format' = twin.before.compression_format
  /\ serialization_format' = twin.before.serialization_format
  /\ sequence_numbers' = twin.before.sequence_numbers
  /\ write_cache' = twin.before.write_cache
  /\ attribute_container_cache' = twin.before.attribute_container_cache
  /\ last' = twin.before.last
  /\ ids' = twin.before.ids
  /\ lastw' = twin.before.lastw
  /\ session' = twin.before.session
  /\ fresh' = twin.before.fresh
  /\ addsAtOpen' = twin.before.addsAtOpen
  /\ serializers_profiler' = FALSE
  /\ storage_profiler' = FALSE
  /\ twin' = [twin EXCEPT !.phase = "second"]
  /\ UNCHANGED profile

\* The same operation is called on it.
SecondRun ==
  /\ twin.phase = "second"
  /\ Run(twin.op)
  /\ twin' = [twin EXCEPT !.phase = "compare"]

\* The store with its profilers goes on.
Resume ==
  /\ twin.phase = "compare"
  /\ serializers_profiler' = twin.profilers[1]
  /\ storage_profiler' = twin.profilers[2]
  /\ twin' = NoTwin
  /\ UNCHANGED <<file, handle, last, history, profile>>

NextProfiler ==
  \/ \E profiler \in BOOLEAN :
       twin.phase = "first" /\ SetSerializersProfiler(profiler)
         /\ UNCHANGED twin
  \/ \E profiler \in BOOLEAN :
       twin.phase = "first" /\ SetStorageProfiler(profiler) /\ UNCHANGED twin
  \/ \E op \in Operations : FirstRun(op)
  \/ Rewind
  \/ SecondRun
  \/ Resume

SpecProfiler == Init /\ [][NextProfiler]_vars

(***************************************************************************)
(* Properties.                                                             *)
(***************************************************************************)
\* A call returned a container list / raised nothing.
Returned(op) == last.op = op /\ last.err = NoError

\* The identifiers add() assigned to type T in the current session.
SessionIds(T) == SubSeq(ids[T], addsAtOpen[T] + 1, Len(ids[T]))

\* C1: in the write session that created the file, the N adds made so far
\* for a container type were assigned the sequence numbers 1, 2, ..., N in
\* call order, whatever else was called in between.
C1_FreshSessionIdentifiers ==
  \A T \in UsedTypes :
    (session = "ok" /\ fresh) =>
      \A j \in 1..Len(ids[T]) : ids[T][j] = j

\* C1: three events were added to a new file, a threshold flush among them.
C1_Witness ==
  /\ session = "ok" /\ fresh
  /\ Len(ids[CONTAINER_TYPE_EVENT]) = MAXIMUM_WRITE_CACHE_SIZE - 1
  /\ Len(f_rows[CONTAINER_TYPE_EVENT]) = MAXIMUM_WRITE_CACHE_SIZE - 1
  /\ last.op = "add"

\* C2: get_by_index(T, n - 1) returns the container that add() gave the
\* identifier (T, n) earlier in the same session (and that was not updated
\* since), with the value it was added with.
C2_ReadYourAdd ==
  \A T \in UsedTypes :
    ( /\ Returned("get") /\ last.type = T
      /\ \E j \in 1..Len(SessionIds(T)) : SessionIds(T)[j] = last.id
      /\ lastw[T][last.id] # UPDATED )
    => last.ret = <<lastw[T][last.id]>>

\* C2, for the referenced types: what holds of the claim.
C2_ReadYourAddReferenced ==
  \A T \in UsedTypes \cap REFERENCED_CONTAINER_TYPES :
    ( /\ Returned("get") /\ last.type = T
      /\ \E j \in 1..Len(SessionIds(T)) : SessionIds(T)[j] = last.id
      /\ lastw[T][last.id] # UPDATED )
    => last.ret = <<lastw[T][last.id]>>

\* C3: get_by_index(T, i) returns a container with the value of the most
\* recent write, add or update, made to the identifier (T, i + 1).
C3_ReadLatestWrite ==
  \A T \in UsedTypes :
    (Returned("get") /\ last.type = T /\ last.ret # <<>>
       /\ lastw[T][last.id] # NeverWritten)
    => last.ret = <<lastw[T][last.id]>>

\* C4: get_all(T) and get_events_in_time_range() return as many containers
\* as were added to the type, the pending ones included, and leave no
\* pending row of the type behind.
C4_ReadAllIncludesPending ==
  /\ \A T \in UsedTypes :
       (Returned("get_all") /\ last.type = T) =>
         /\ Len(last.ret) = Len(ids[T])
         /\ ~HasPendingRows(write_cache[T])
  /\ Returned("get_sorted") =>
       /\ Len(last.ret) = Len(ids[CONTAINER_TYPE_EVENT])
       /\ ~HasPendingRows(write_cache[CONTAINER_TYPE_EVENT])

\* C4: all events were read while the last added one was still pending.
C4_Witness ==
  /\ Returned("get_sorted")
  /\ ~read_only
  /\ Len(last.ret) = 2
  /\ Len(SessionIds(CONTAINER_TYPE_EVENT)) = 1

\* C5: in a read-write session on a file that held k rows of a referenced
\* type when it was opened, the first add of the type is assigned k + 1
\* and every add a sequence number above k.
C5_ReopenContinuesNumbering ==
  \A T \in UsedTypes \cap REFERENCED_CONTAINER_TYPES :
    (session = "ok" /\ ~read_only /\ SessionIds(T) # <<>>) =>
      LET k == NumberOfContainers(T) - Len(SessionIds(T))
      IN /\ SessionIds(T)[1] = k + 1
         /\ \A j \in 1..Len(SessionIds(T)) : SessionIds(T)[j] > k

\* C5: an event was added after a reopen of a file that held two events.
C5_Witness ==
  /\ session = "ok" /\ ~read_only /\ ~fresh
  /\ addsAtOpen[CONTAINER_TYPE_EVENT] = 2
  /\ SessionIds(CONTAINER_TYPE_EVENT) = <<3>>

\* C6: over the life of the file the sequence numbers add() assigned to a
\* container type are strictly increasing, hence pairwise distinct.
C6_NeverReused ==
  \A T \in UsedTypes :
    \A i, j \in 1..Len(ids[T]) : i < j => ids[T][i] < ids[T][j]

\* C6, for the referenced types: what holds of the claim.
C6_NeverReusedReferenced ==
  \A T \in UsedTypes \cap REFERENCED_CONTAINER_TYPES :
    \A i, j \in 1..Len(ids[T]) : i < j => ids[T][i] < ids[T][j]

\* C7: an Open that raised leaves the handle closed, without connection or
\* cursor.
C7_FailedOpenLeavesClosed ==
  (last.op = "open" /\ last.err \notin {NoError, ERR_ALREADY_OPEN}) =>
    (~is_open /\ ~connection /\ ~cursor)

\* C8: Open of a file with a metadata table returns only when the stored
\* compression format is a recognized one and the stored serialization
\* format is json, and then the handle has the file's formats; otherwise it
\* raises an unsupported-format error, and an Open that raises leaves the
\* handle's own formats as they were.
C8_MetadataChecked ==
  [][LET stored == f_meta.table = "metadata"
         valid == /\ f_meta.compression_format \in COMPRESSION_FORMATS
                  /\ f_meta.serialization_format = SERIALIZER_FORMAT_JSON
         returned == session = "ok" /\ ~fresh
         taken == /\ compression_format = f_meta.compression_format
                  /\ serialization_format = f_meta.serialization_format
         checked == /\ last.op = "open"
                    /\ last.err \notin {ERR_ALREADY_OPEN, ERR_MISSING_PATH}
         raised == last.err \in UnsupportedFormatErrors /\ session = "failed"
     IN /\ returned' => (stored /\ valid /\ taken)'
        /\ (stored /\ ~valid /\ checked)' => raised'
        /\ (last'.op = "open" /\ last'.err # NoError) =>
             UNCHANGED <<compression_format, serialization_format>>]_vars

\* C8: a read-write Open raised for a file without a serialization format.
C8_Witness ==
  /\ last.op = "open" /\ last.err = ERR_SERIALIZATION
  /\ f_meta.serialization_format = None
  /\ ~read_only

\* C9: Open on an open handle raises the already-open error, whatever the
\* path, and changes neither the handle nor the file.
C9_OpenWhenOpen ==
  [][(is_open /\ last'.op = "open") =>
       (last'.err = ERR_ALREADY_OPEN /\ UNCHANGED <<file, handle, history>>)]_vars

\* C9: Open raised on a handle with pending rows and counters in use.
C9_Witness ==
  /\ last.op = "open" /\ last.err = ERR_ALREADY_OPEN
  /\ is_open /\ ~read_only
  /\ HasPendingRows(write_cache[CONTAINER_TYPE_EVENT])
  /\ sequence_numbers[CONTAINER_TYPE_EVENT] = 2

\* C10: in a write session of adds alone, the table of a type holds
\* MAXIMUM_WRITE_CACHE_SIZE rows once that many were added, before the next
\* one is added, and still that many after it, the last one pending alone.
C10_FlushAtMaximum ==
  \A T \in UsedTypes :
    /\ Len(ids[T]) = MAXIMUM_WRITE_CACHE_SIZE =>
         Len(f_rows[T]) = MAXIMUM_WRITE_CACHE_SIZE
    /\ Len(ids[T]) = MAXIMUM_WRITE_CACHE_SIZE + 1 =>
         /\ Len(f_rows[T]) = MAXIMUM_WRITE_CACHE_SIZE
         /\ Len(PendingRows(write_cache[T])) = 1

\* C10, as the code has it: the flush comes one row earlier.
C10_FlushBelowMaximum ==
  \A T \in UsedTypes :
    /\ Len(ids[T]) = MAXIMUM_WRITE_CACHE_SIZE =>
         /\ Len(f_rows[T]) = MAXIMUM_WRITE_CACHE_SIZE - 1
         /\ Len(PendingRows(write_cache[T])) = 1
    /\ Len(ids[T]) = MAXIMUM_WRITE_CACHE_SIZE + 1 =>
         /\ Len(f_rows[T]) = MAXIMUM_WRITE_CACHE_SIZE - 1
         /\ Len(PendingRows(write_cache[T])) = 2

InClaimedRange(time_range, timestamp) ==
  \/ time_range.none
  \/ /\ ~time_range.start_none => time_range.start_timestamp <= timestamp
     /\ ~time_range.end_none => timestamp <= time_range.end_timestamp

\* The stored events a time range claims, by timestamp.
ClaimedEvents(time_range) ==
  SortSeq(SelectSeq(f_rows[CONTAINER_TYPE_EVENT],
                    LAMBDA t : InClaimedRange(time_range, t)),
          LAMBDA a, b : a < b)

\* The example of the specification: timestamps 10, 30, 20 and the range
\* (15, 25) give the event with timestamp 20.
RangeExample ==
  GetAttributeContainersWithFilter(
    <<10, 30, 20>>, TimeRangeFilter(TimeRange(FALSE, 15, FALSE, 25)), TRUE)
  = <<20>>

\* C12: get_events_in_time_range yields exactly the stored events whose
\* timestamp is not below the start, when the range has one, and not above
\* the end, when it has one, whatever integers the bounds are, 0 included.
C12_EventsInTimeRange ==
  /\ RangeExample
  /\ Returned("get_sorted") => last.ret = ClaimedEvents(last.arg)

\* C12, for bounds other than 0: what holds of the claim.
C12_EventsInTimeRangeNonZero ==
  /\ RangeExample
  /\ ( /\ Returned("get_sorted")
       /\ last.arg.start_timestamp # 0 \/ last.arg.start_none
       /\ last.arg.end_timestamp # 0 \/ last.arg.end_none )
     => last.ret = ClaimedEvents(last.arg)

\* C13: get_events_in_time_range yields the events in non-decreasing
\* timestamp order, whatever the order they were added in.
C13_SortedByTimestamp ==
  Returned("get_sorted") =>
    \A i, j \in 1..Len(last.ret) : i < j => last.ret[i] <= last.ret[j]

\* C13: three events added in decreasing timestamp order were read, without
\* a time range.
C13_Witness ==
  /\ Returned("get_sorted") /\ last.arg.none
  /\ f_rows[CONTAINER_TYPE_EVENT] = <<MaxTimestamp, 1, 0>>
  /\ last.ret = <<0, 1, MaxTimestamp>>

\* The errors the compilation of a filter expression raises.
FilterCompilationErrors == {ERR_SYNTAX}

\* C14: get_all with a filter expression that names an attribute the
\* container type does not have raises the error of the compilation, not
\* the error of a query.
C14_UnknownAttributeFailsCompilation ==
  (last.op = "get_all" /\ last.filter.kind = "unknown_attribute") =>
    last.err \in FilterCompilationErrors

\* C15: get_all with a filter expression that is malformed or names an
\* unknown attribute raises and leaves the file and the handle as they
\* were, no pending row flushed; and a filter expression that compiles is
\* applied, not dropped.
C15_CompilationFailsBeforeQuery ==
  [][/\ ( /\ last'.op = "get_all"
          /\ last'.filter.kind \in {"malformed", "unknown_attribute"} )
        => (last'.err # NoError /\ UNCHANGED <<file, handle>>)
     /\ ( /\ last'.op = "get_all" /\ last'.err = NoError
          /\ last'.filter.kind = "minimum" )
        => last'.ret = SelectSeq(f_rows'[CONTAINER_TYPE_EVENT],
                                 LAMBDA t : t >= last'.filter.value)]_vars

\* C15, for a malformed filter expression: what holds of the claim.
C15_MalformedFailsBeforeQuery ==
  [][/\ (last'.op = "get_all" /\ last'.filter.kind = "malformed")
        => (last'.err # NoError /\ UNCHANGED <<file, handle>>)
     /\ ( /\ last'.op = "get_all" /\ last'.err = NoError
          /\ last'.filter.kind = "minimum" )
        => last'.ret = SelectSeq(f_rows'[CONTAINER_TYPE_EVENT],
                                 LAMBDA t : t >= last'.filter.value)]_vars

\* C16: after a Close that returned no added container is left in a write
\* cache and the table of a type holds a row for every add; a later session
\* that adds nothing reads as many containers as were added.
C16_ClosePersistsAdds ==
  /\ (last.op = "close" /\ last.err = NoError) =>
       \A T \in UsedTypes :
         /\ write_cache[T] = <<>>
         /\ Len(f_rows[T]) = Len(ids[T])
  /\ \A T \in UsedTypes :
       ( /\ Returned("get_all") /\ last.type = T
         /\ addsAtOpen[T] = Len(ids[T]) )
       => Len(last.ret) = Len(ids[T])

\* C16: two events, added in a session that reached no flush threshold, were
\* read in a later read-only session.
C16_Witness ==
  /\ Returned("get_all") /\ last.type = CONTAINER_TYPE_EVENT
  /\ read_only
  /\ Len(ids[CONTAINER_TYPE_EVENT]) = 2
  /\ Len(last.ret) = 2

\* C17: the compression format and the serialization format stored in the
\* metadata of a file never change, and a handle that is open has the
\* formats of the file.
C17_StoredFormatsFixed ==
  [][/\ f_meta.table = "metadata" =>
          /\ f_meta'.compression_format = f_meta.compression_format
          /\ f_meta'.serialization_format = f_meta.serialization_format
     /\ (is_open' /\ f_meta'.table = "metadata") =>
          /\ compression_format' = f_meta'.compression_format
          /\ serialization_format' = f_meta'.serialization_format]_vars

\* C17, for the handles whose Open returned: what holds of the claim.
C17_StoredFormatsFixedOpened ==
  [][/\ f_meta.table = "metadata" =>
          /\ f_meta'.compression_format = f_meta.compression_format
          /\ f_meta'.serialization_format = f_meta.serialization_format
     /\ session' = "ok" =>
          /\ compression_format' = f_meta'.compression_format
          /\ serialization_format' = f_meta'.serialization_format]_vars

\* C18: an Open with read_only set leaves the file as it was: the metadata
\* table, its values and the container tables; it returns only for a file
\* whose metadata exists and validates for reading; and a step that changes
\* the metadata or the tables of the file is a read-write Open that returned.
C18_ReadOnlyOpenChangesNothing ==
  [][/\ (last'.op = "open" /\ read_only') =>
          /\ UNCHANGED file
          /\ last'.err = NoError =>
                /\ f_meta.table = "metadata"
                /\ f_meta.format_version # UNSUPPORTED_VERSION
                /\ f_meta.compression_format \in COMPRESSION_FORMATS
                /\ f_meta.serialization_format = SERIALIZER_FORMAT_JSON
     /\ (f_meta' # f_meta \/ f_tables' # f_tables) =>
          /\ last'.op = "open" /\ last'.err = NoError
          /\ ~read_only']_vars

\* C18: a read-only Open returned for a file that has valid metadata and no
\* container table, and the file still has none.
C18_Witness ==
  /\ Returned("open") /\ read_only /\ session = "ok"
  /\ f_meta.table = "metadata"
  /\ f_tables = {}

\* C19: an update that returned has written the pending rows of the type to
\* its table and left none pending, and a container that was added in the
\* same session, was still pending and has the identifier of the update has
\* the updated values in its row.
C19_UpdateFlushesFirst ==
  [][(last'.op = "update" /\ last'.err = NoError) =>
       LET T == last'.type
           n == last'.id
       IN /\ PendingRows(write_cache'[T]) = <<>>
          /\ Len(f_rows'[T]) = Len(f_rows[T]) + Len(PendingRows(write_cache[T]))
          /\ \A j \in (addsAtOpen[T] + 1)..Len(ids[T]) :
               (ids[T][j] = n /\ j > Len(f_rows[T])) =>
                 f_rows'[T][j] = UPDATED]_vars

\* C19, for the referenced container types: what holds of the claim.
C19_UpdateFlushesFirstReferenced ==
  [][( /\ last'.op = "update" /\ last'.err = NoError
       /\ last'.type \in REFERENCED_CONTAINER_TYPES ) =>
       LET T == last'.type
           n == last'.id
       IN /\ PendingRows(write_cache'[T]) = <<>>
          /\ Len(f_rows'[T]) = Len(f_rows[T]) + Len(PendingRows(write_cache[T]))
          /\ \A j \in (addsAtOpen[T] + 1)..Len(ids[T]) :
               (ids[T][j] = n /\ j > Len(f_rows[T])) =>
                 f_rows'[T][j] = UPDATED]_vars

\* C20: when a read-write Open has returned, every registered container type
\* has a table unless it is in _NO_CREATE_TABLE_CONTAINER_TYPES, and then it
\* has none; the tables that existed still exist with the rows they had; and
\* a file that had no metadata table has one with the current format version
\* and the compression and serialization format of the handle.
C20_TablesAfterOpen ==
  [][(last'.op = "open" /\ last'.err = NoError /\ ~read_only') =>
       /\ \A t \in GetContainerTypes :
            HasTable(f_tables', t) <=> t \notin NO_CREATE_TABLE_CONTAINER_TYPES
       /\ f_tables \subseteq f_tables'
       /\ f_rows' = f_rows
       /\ f_meta'.table = "metadata"
       /\ f_meta \in {NoFile, NoMetadataTable} =>
            /\ f_meta'.format_version = FORMAT_VERSION
            /\ f_meta'.compression_format = compression_format'
            /\ f_meta'.serialization_format = serialization_format']_vars

\* C20: a read-write Open returned for a file that already had its tables,
\* one of them with a row.
C20_Witness ==
  /\ Returned("open") /\ ~read_only /\ session = "ok" /\ ~fresh
  /\ \E T \in UsedTypes : f_rows[T] # <<>>

\* The containers of type T the store holds, the persisted rows first and
\* the pending ones after them.
Containers(rows, wc, T) == rows[T] \o PendingRows(wc[T])

\* C21: an update that returned has left the row whose rowid is the sequence
\* number of the container with the values of the container, NULL where the
\* attribute has no value; no other row of a table, no number of rows of a
\* table and no sequence counter has changed.
C21_UpdateRewritesOneRow ==
  [][(last'.op = "update" /\ last'.err = NoError) =>
       LET T == last'.type
           n == last'.id
       IN /\ f_rows'[T][n] = lastw'[T][n]
          /\ \A U \in TableTypes :
               /\ Len(f_rows'[U]) = Len(f_rows[U])
               /\ \A k \in 1..Len(f_rows[U]) :
                    (U # T \/ k # n) => f_rows'[U][k] = f_rows[U][k]
          /\ sequence_numbers' = sequence_numbers]_vars

\* C21, amended: the pending rows of the type of the container are written
\* to its table first; apart from that the update changes the one row and
\* nothing else: no other container of any type, persisted or pending, no
\* number of containers of a type and no sequence counter.
C21_UpdateRewritesOneContainer ==
  [][(last'.op = "update" /\ last'.err = NoError) =>
       LET T == last'.type
           n == last'.id
       IN /\ f_rows'[T][n] = lastw'[T][n]
          /\ \A U \in TableTypes :
               LET before == Containers(f_rows, write_cache, U)
                   after == Containers(f_rows', write_cache', U)
               IN /\ Len(after) = Len(before)
                  /\ \A k \in 1..Len(before) :
                       (U # T \/ k # n) => after[k] = before[k]
          /\ \A U \in TableTypes \ {T} :
               f_rows'[U] = f_rows[U] /\ write_cache'[U] = write_cache[U]
          /\ sequence_numbers' = sequence_numbers
          /\ UNCHANGED <<f_meta, f_tables>>]_vars

\* C21: an update unset the attribute of the second of two events, whose
\* rows were pending, and the first event has the value it was added with.
C21_Witness ==
  /\ Returned("update") /\ last.type = CONTAINER_TYPE_EVENT /\ last.id = 2
  /\ Len(f_rows[CONTAINER_TYPE_EVENT]) = 2
  /\ f_rows[CONTAINER_TYPE_EVENT][2] = NULL
  /\ f_rows[CONTAINER_TYPE_EVENT][1] > 0

\* C22: a get_by_index of an index that has no row, persisted or pending,
\* raises nothing and returns no container, leaves the index cache, the
\* sequence counters and the identifiers as they were; and a container that
\* is added after it is returned by get_by_index of its own index.
C22_AbsentRowReturnsNone ==
  [][LET T == last'.type
         n == last'.id
     IN /\ (last'.op = "get" /\ n > NumberOfContainers(T)) =>
             /\ last'.err = NoError
             /\ last'.ret = <<>>
             /\ UNCHANGED <<attribute_container_cache, sequence_numbers, ids>>
        /\ ( /\ last'.op = "get" /\ last'.err = NoError
             /\ \E j \in (addsAtOpen[T] + 1)..Len(ids[T]) : ids[T][j] = n )
           => last'.ret = <<lastw[T][n]>>]_vars

\* C22, with the read back for the referenced container types alone: what
\* holds of the claim.
C22_AbsentRowReturnsNoneReferenced ==
  [][LET T == last'.type
         n == last'.id
     IN /\ (last'.op = "get" /\ n > NumberOfContainers(T)) =>
             /\ last'.err = NoError
             /\ last'.ret = <<>>
             /\ UNCHANGED <<attribute_container_cache, sequence_numbers, ids>>
        /\ ( /\ last'.op = "get" /\ last'.err = NoError
             /\ T \in REFERENCED_CONTAINER_TYPES
             /\ \E j \in (addsAtOpen[T] + 1)..Len(ids[T]) : ids[T][j] = n )
           => last'.ret = <<lastw[T][n]>>]_vars

\* C23: an update of a container of a type without schema raises an IOError
\* and leaves the file and the handle as they were: the write cache with its
\* pending rows, the rows of the tables, the counters and the index cache.
C23_UpdateWithoutSchemaFails ==
  [][(last'.op = "update" /\ ~GetAttributeContainerSchema(last'.type)) =>
       /\ last'.err \in {ERR_NO_SCHEMA, ERR_NOT_WRITABLE}
       /\ UNCHANGED <<file, handle>>]_vars

\* C23: the update of an opaque container was refused while rows of its type
\* were pending, and they still are.
C23_Witness ==
  /\ last.op = "update" /\ last.type = CONTAINER_TYPE_OPAQUE
  /\ last.err = ERR_NO_SCHEMA
  /\ HasPendingRows(write_cache[CONTAINER_TYPE_OPAQUE])

\* C24: an operation called on a store with a serializers profiler, a
\* storage profiler or both, and the same operation called in the same state
\* on a store without profilers, end with the same rows, tables and
\* metadata, the same write cache, counters and index cache, and the same
\* result or error.
C24_ProfilersDoNotInfluence ==
  twin.phase = "compare" => StoreState = twin.after

\* C24: a container without schema was added with both profilers set, which
\* recorded its serialization and its sample, and was added without.
C24_Witness ==
  /\ twin.phase = "compare"
  /\ twin.profilers = <<TRUE, TRUE>>
  /\ twin.op = Operation("add", CONTAINER_TYPE_OPAQUE, 0)
  /\ last.err = NoError
  /\ {"serialize", "write_new"} \subseteq profile

\* C25: the pending rows of a container type are never more than
\* MAXIMUM_WRITE_CACHE_SIZE, and after an add that returned the list stored
\* for the type of the container has fewer elements than that threshold.
C25_WriteCacheBounded ==
  /\ \A T \in TableTypes :
       Len(PendingRows(write_cache[T])) <= MAXIMUM_WRITE_CACHE_SIZE
  /\ (last.op = "add" /\ last.err = NoError) =>
       Len(write_cache[last.type]) < MAXIMUM_WRITE_CACHE_SIZE

\* C25: an add reached the threshold: its list was flushed and holds the
\* column names alone.
C25_Witness ==
  /\ last.op = "add" /\ last.err = NoError
  /\ write_cache[last.type] = <<COLUMN_NAMES>>
  /\ Len(f_rows[last.type]) >= MAXIMUM_WRITE_CACHE_SIZE - 1

\* C26: for a referenced container type the n-th add gets the identifier
\* (T, n), every identifier has its container among the rows and the pending
\* rows, the n-th row of the table holds what was last written to (T, n),
\* and a get_by_index(T, n - 1) that does not find the container in the
\* index cache returns the container of (T, n).
C26_IdentifierIsRowNumber ==
  [][\A T \in UsedTypes \cap REFERENCED_CONTAINER_TYPES :
       /\ \A j \in 1..Len(ids'[T]) : ids'[T][j] = j
       /\ Len(Containers(f_rows', write_cache', T)) = Len(ids'[T])
       /\ \A n \in 1..Len(f_rows'[T]) : f_rows'[T][n] = lastw'[T][n]
       /\ ( /\ last'.op = "get" /\ last'.type = T /\ last'.err = NoError
            /\ last'.id <= Len(ids[T])
            /\ ~CacheHas(attribute_container_cache, CacheKey(T, last'.id - 1)) )
          => last'.ret = <<lastw[T][last'.id]>>]_vars

\* C26: the second event of an earlier session was read by its index.
C26_Witness ==
  /\ Returned("get") /\ last.type = CONTAINER_TYPE_EVENT /\ last.id = 2
  /\ addsAtOpen[CONTAINER_TYPE_EVENT] >= 2
  /\ last.ret = <<lastw[CONTAINER_TYPE_EVENT][2]>>
  /\ lastw[CONTAINER_TYPE_EVENT][2] # UPDATED

\* C27: while the store is open the sequence counter of a referenced
\* container type is the number of rows of its table plus the number of its
\* pending rows.
C27_CounterIsNumberOfContainers ==
  is_open =>
    \A T \in REFERENCED_CONTAINER_TYPES :
      sequence_numbers[T] = Len(f_rows[T]) + Len(PendingRows(write_cache[T]))

\* C27, for the sessions whose Open returned: what holds of the claim.
C27_CounterIsNumberOfContainersOpened ==
  (is_open /\ session = "ok") =>
    \A T \in REFERENCED_CONTAINER_TYPES :
      sequence_numbers[T] = Len(f_rows[T]) + Len(PendingRows(write_cache[T]))

\* C28: AddAttributeContainer, UpdateAttributeContainer and
\* GetAttributeContainerByIndex of a container type leave the pending rows,
\* the rows of the table and the sequence counter of every other container
\* type as they were.
C28_WriteCachesIndependent ==
  [][last'.op \in {"add", "update", "get"} =>
       \A U \in TableTypes \ {last'.type} :
         /\ write_cache'[U] = write_cache[U]
         /\ f_rows'[U] = f_rows[U]
         /\ sequence_numbers'[U] = sequence_numbers[U]]_vars

\* An update has flushed the rows of its type while another type has
\* pending rows.
C28_Witness ==
  /\ last.op = "update" /\ last.err = NoError
  /\ write_cache[last.type] = <<>>
  /\ Len(f_rows[last.type]) > 0
  /\ \E U \in TableTypes \ {last.type} : HasPendingRows(write_cache[U])

====
